---- MODULE Spec2Model ----
(***************************************************************************)
(* A model of shellpython/preprocessor.py: the transpiler of shellpy       *)
(* scripts (.spy) to python.                                               *)
(*                                                                         *)
(* Text is a sequence of tokens.  A token is one character of the script   *)
(* (the quote mark, the apostrophe, the backslash, the newline, ...) or    *)
(* one of the words the preprocessor itself writes ("multiline", "_",      *)
(* "shexe", "(", ")", ";", "exe(", ...).  The regular expressions of the   *)
(* source are translated to operators that find the match the re module of *)
(* python finds: the leftmost start, and at that start the first match in  *)
(* backtracking order.                                                     *)
(***************************************************************************)
EXTENDS Integers, Sequences, FiniteSets, TLC

VARIABLES
    in_file_data,    \* content of the .spy source file
    processed_data,  \* preprocess_file: the text as the passes rewrite it
    stage,           \* preprocess_file: the last pass applied to processed_data
    path1, path2,    \* two paths handed to translate_to_temp_path
    out1, out2,      \* their translations
    translated,      \* whether out1 and out2 have been computed
    src_mtime,       \* os.path.getmtime of the source, in ticks
    src_mode,        \* st_mode of the source
    dir_exists,      \* whether os.path.dirname(out_filename) exists
    artifact,        \* the file at out_filename: [exists, data, mode]
    pc,              \* per process: the line preprocess_file is at
    is_root_script,  \* per process: the argument of preprocess_file
    out_file_data,   \* per process: the data to be written
    offset,          \* per process: the position of its open file object
    result,          \* per process: how preprocess_file ended
    start_artifact,  \* per process: the artifact when preprocess_file was called
    seen_data,       \* per process: the artifact data is_compilation_needed read
    wrote,           \* per process: whether this call opened the artifact for writing
    consulted,       \* per process: whether this call ran is_compilation_needed
    log              \* the calls completed since the files were last touched from outside

gvars == <<processed_data, stage>>
pvars == <<path1, path2, out1, out2, translated>>
fvars == <<src_mtime, src_mode, dir_exists, artifact>>
lvars == <<pc, is_root_script, out_file_data, offset, result, start_artifact,
           seen_data, wrote, consulted, log>>
vars == <<in_file_data, gvars, pvars, fvars, lvars>>

----------------------------------------------------------------------------
(* Bounds *)

\* longest script drawn over the whole alphabet
MaxLen == 5
\* most content lines of a multiline block
MaxLines == 2
\* longest path handed to translate_to_temp_path
MaxPathLen == 4
\* most modification times of the source
MaxMtime == 2
\* most calls of preprocess_file logged between outside changes
MaxRuns == 2

----------------------------------------------------------------------------
(* Character classes of the patterns *)

\* the quote mark of shellpy, a backtick (written BQ in the comments below; SQ is
\* the apostrophe)
BQ == "BQ"

Min(S) == CHOOSE x \in S : \A y \in S : x <= y

\* [\n\r]
NL == {"\n", "\r"}
\* \s
WS == {" ", "\t", "\n", "\r"}
\* [a-z] runs: the lowercase script character and the lowercase words
Lower == {"a", "multiline", "longline", "both", "start", "shexe"}

\* the first position >= from holding a token of C; Len(s)+1 if there is none
FirstIn(s, from, C) ==
    LET S == {j \in from..Len(s) : s[j] \in C}
    IN IF S = {} THEN Len(s) + 1 ELSE Min(S)

\* the first position >= from holding a token outside C
FirstNotIn(s, from, C) ==
    LET S == {j \in from..Len(s) : s[j] \notin C}
    IN IF S = {} THEN Len(s) + 1 ELSE Min(S)

AllIn(s, a, b, C) == \A j \in a..b : s[j] \in C

\* ^ under re.MULTILINE: the start of the text or just after a "\n"
LineStart(s, i) == i = 1 \/ s[i-1] = "\n"

\* $ under re.MULTILINE: the first position >= from that is the end or before "\n"
Eol(s, from) == FirstIn(s, from, {"\n"})

NoMatch == [found |-> FALSE, text |-> <<>>, next |-> 0]

\* <variant>_shexe(   and   )shexe
Open(variant) == <<variant, "_", "shexe", "(">>
Close == <<")", "shexe">>

\* re.sub: replace the non-overlapping matches, leftmost first
RECURSIVE re_sub(_, _, _)
re_sub(Match(_, _), s, pos) ==
    IF pos > Len(s) THEN <<>>
    ELSE LET m == Match(s, pos)
         IN IF m.found THEN m.text \o re_sub(Match, s, m.next)
            ELSE <<s[pos]>> \o re_sub(Match, s, pos + 1)

\* re.finditer: the matched texts, leftmost first
RECURSIVE re_finditer(_, _, _)
re_finditer(Match(_, _), s, pos) ==
    IF pos > Len(s) THEN <<>>
    ELSE LET m == Match(s, pos)
         IN IF m.found THEN <<m.text>> \o re_finditer(Match, s, m.next)
            ELSE re_finditer(Match, s, pos + 1)

\* str.replace: every non-overlapping occurrence of old, leftmost first
RECURSIVE str_replace(_, _, _, _)
str_replace(s, old, new, pos) ==
    IF pos > Len(s) THEN <<>>
    ELSE IF pos + Len(old) - 1 <= Len(s) /\ SubSeq(s, pos, pos + Len(old) - 1) = old
         THEN new \o str_replace(s, old, new, pos + Len(old))
         ELSE <<s[pos]>> \o str_replace(s, old, new, pos + 1)

\* for s, ps in pairs: script_data = script_data.replace(s, ps)
RECURSIVE replace_pairs(_, _, _, _)
replace_pairs(script_data, strings, processed_string, k) ==
    IF k > Len(strings) THEN script_data
    ELSE replace_pairs(str_replace(script_data, strings[k], processed_string[k], 1),
                       strings, processed_string, k + 1)

----------------------------------------------------------------------------
(* process_multilines *)

\* ^([^BQ\n\r]*?)BQ\s*?$[\n\r]{1,2}(.*?)BQ\s*?$   MULTILINE | DOTALL
\*   -> \1multiline_shexe(\2)shexe
code_multiline_pattern(s, i) ==
    LET p == FirstIn(s, i, {BQ} \cup NL)
        q == Eol(s, p + 1)
        n == IF q + 1 <= Len(s) /\ s[q+1] \in NL THEN 2 ELSE 1
        r == q + n
        E == {e \in r..Len(s) : s[e] = BQ /\ AllIn(s, e + 1, Eol(s, e + 1) - 1, WS)}
    IN IF /\ LineStart(s, i)
          /\ p <= Len(s) /\ s[p] = BQ
          /\ AllIn(s, p + 1, q - 1, WS)
          /\ q <= Len(s)
          /\ E # {}
       THEN [found |-> TRUE,
             text  |-> SubSeq(s, i, p - 1) \o Open("multiline")
                       \o SubSeq(s, r, Min(E) - 1) \o Close,
             next  |-> Eol(s, Min(E) + 1)]
       ELSE NoMatch

\* multiline_shexe.*?shexe   DOTALL
multiline_span_pattern(s, i) ==
    LET j == FirstIn(s, i + 3, {"shexe"})
    IN IF /\ i + 2 <= Len(s)
          /\ s[i] = "multiline" /\ s[i+1] = "_" /\ s[i+2] = "shexe"
          /\ j <= Len(s)
       THEN [found |-> TRUE, text |-> SubSeq(s, i, j), next |-> j + 1]
       ELSE NoMatch

\* newline_pattern with the separator put before the newlines only where another
\* line follows them
newline_pattern_between(s, i) ==
    LET n == IF i + 1 <= Len(s) /\ s[i+1] \in NL THEN 2 ELSE 1
    IN IF s[i] \in NL
       THEN [found |-> TRUE,
             text  |-> IF i + n + 1 <= Len(s) /\ s[i+n] = ")" /\ s[i+n+1] = "shexe"
                       THEN <<>>
                       ELSE <<";", " ", "\\">> \o SubSeq(s, i, i + n - 1),
             next  |-> i + n]
       ELSE NoMatch

\* ([\r\n]{1,2})  ->  SQ; \SQ followed by \1
newline_pattern(s, i) ==
    LET n == IF i + 1 <= Len(s) /\ s[i+1] \in NL THEN 2 ELSE 1
    IN IF s[i] \in NL
       THEN [found |-> TRUE,
             text  |-> <<";", " ", "\\">> \o SubSeq(s, i, i + n - 1),
             next  |-> i + n]
       ELSE NoMatch

process_multilines(script_data) ==
    LET tagged  == re_sub(code_multiline_pattern, script_data, 1)
        strings == re_finditer(multiline_span_pattern, tagged, 1)
        processed_string ==
            [k \in 1..Len(strings) |-> re_sub(newline_pattern, strings[k], 1)]
    IN replace_pairs(tagged, strings, processed_string, 1)

----------------------------------------------------------------------------
(* process_long_lines *)

\* one round of ((.*?\\\s*?$)[\n\r]{1,2}) tried at r: the position after it, 0 if
\* it does not match
long_line_round(s, r) ==
    LET eol == Eol(s, r)
        B == {b \in r..(eol - 1) : s[b] = "\\" /\ AllIn(s, b + 1, eol - 1, WS)}
        n == IF eol + 1 <= Len(s) /\ s[eol+1] \in NL THEN 2 ELSE 1
    IN IF r <= Len(s) /\ eol <= Len(s) /\ B # {} THEN eol + n ELSE 0

\* the position after the last round of the greedy ( ... )+ that starts at r
RECURSIVE long_line_rounds(_, _)
long_line_rounds(s, r) ==
    LET nxt == long_line_round(s, r)
    IN IF nxt = 0 THEN r ELSE long_line_rounds(s, nxt)

\* BQ(((.*?\\\s*?$)[\n\r]{1,2})+(.*$))   MULTILINE  ->  longline_shexe(\1)shexe
code_long_line_pattern(s, i) ==
    LET r == long_line_rounds(s, i + 1)
        e == Eol(s, r)
    IN IF s[i] = BQ /\ long_line_round(s, i + 1) # 0
       THEN [found |-> TRUE,
             text  |-> Open("longline") \o SubSeq(s, i + 1, e - 1) \o Close,
             next  |-> e]
       ELSE NoMatch

process_long_lines(script_data) == re_sub(code_long_line_pattern, script_data, 1)

----------------------------------------------------------------------------
(* process_code_both *)

\* BQ(.*?)BQ  ->  both_shexe(\1)shexe
code_both_pattern(s, i) ==
    LET j == FirstIn(s, i + 1, {BQ, "\n"})
    IN IF s[i] = BQ /\ j <= Len(s) /\ s[j] = BQ
       THEN [found |-> TRUE,
             text  |-> Open("both") \o SubSeq(s, i + 1, j - 1) \o Close,
             next  |-> j + 1]
       ELSE NoMatch

process_code_both(script_data) == re_sub(code_both_pattern, script_data, 1)

----------------------------------------------------------------------------
(* process_code_start *)

\* ^([^\n\rBQ]*)BQ([^BQ\n\r]+)$   MULTILINE  ->  \1start_shexe(\2)shexe
code_start_pattern(s, i) ==
    LET p == FirstIn(s, i, {BQ} \cup NL)
        e == FirstIn(s, p + 1, {BQ} \cup NL)
    IN IF /\ LineStart(s, i)
          /\ p <= Len(s) /\ s[p] = BQ
          /\ e > p + 1
          /\ (e = Len(s) + 1 \/ s[e] = "\n")
       THEN [found |-> TRUE,
             text  |-> SubSeq(s, i, p - 1) \o Open("start")
                       \o SubSeq(s, p + 1, e - 1) \o Close,
             next  |-> e]
       ELSE NoMatch

process_code_start(script_data) == re_sub(code_start_pattern, script_data, 1)

----------------------------------------------------------------------------
(* escape *)

\* [a-z]*_shexe.*?shexe   DOTALL
escape_pattern(s, i) ==
    LET u == FirstNotIn(s, i, Lower)
        j == FirstIn(s, u + 2, {"shexe"})
    IN IF /\ u + 1 <= Len(s)
          /\ s[u] = "_" /\ s[u+1] = "shexe"
          /\ j <= Len(s)
       THEN [found |-> TRUE, text |-> SubSeq(s, i, j), next |-> j + 1]
       ELSE NoMatch

\* original_str.replace(SQ\SQSQ, SQ\\\SQSQ)
RECURSIVE escape_quotes(_)
escape_quotes(s) ==
    IF s = <<>> THEN <<>>
    ELSE (IF Head(s) = "'" THEN <<"\\", "'">> ELSE <<Head(s)>>) \o escape_quotes(Tail(s))

HasQuote(s) == \E j \in 1..Len(s) : s[j] = "'"

escape(script_data) ==
    LET found   == re_finditer(escape_pattern, script_data, 1)
        strings == SelectSeq(found, HasQuote)
        processed_string == [k \in 1..Len(strings) |-> escape_quotes(strings[k])]
    IN replace_pairs(script_data, strings, processed_string, 1)

----------------------------------------------------------------------------
(* intermediate_to_final *)

ExeOpen == <<"exe(", "'">>
ExeClose == <<"'", ".format(**dict(locals(), **globals())))">>

\* [a-z]*_shexe\((.*?)\)shexe   MULTILINE | DOTALL
\*   -> exe(SQ\1SQ.format(**dict(locals(), **globals())))
intermediate_pattern(s, i) ==
    LET u == FirstNotIn(s, i, Lower)
        J == {j \in (u + 3)..(Len(s) - 1) : s[j] = ")" /\ s[j+1] = "shexe"}
    IN IF /\ u + 2 <= Len(s)
          /\ s[u] = "_" /\ s[u+1] = "shexe" /\ s[u+2] = "("
          /\ J # {}
       THEN [found |-> TRUE,
             text  |-> ExeOpen \o SubSeq(s, u + 3, Min(J) - 1) \o ExeClose,
             next  |-> Min(J) + 2]
       ELSE NoMatch

intermediate_to_final(script_data) == re_sub(intermediate_pattern, script_data, 1)

----------------------------------------------------------------------------
(* The passes of preprocess_file, lines 134-142, one step each *)

\* the characters scripts are drawn from
Alphabet == {BQ, "\n", "\\", "'", "a"}

\* content lines of multiline blocks
ContentLines == {<<"a">>, <<" ">>, <<"'">>, <<"\\">>, <<"a", " ">>}

\* what precedes the opening quote mark of a block on its line
Prefixes == {<<>>, <<"a", " ">>}

RECURSIVE Flatten(_)
Flatten(ss) == IF ss = <<>> THEN <<>> ELSE Head(ss) \o Flatten(Tail(ss))

LineSeqs == UNION {[1..n -> ContentLines] : n \in 1..MaxLines}

\* lines without a quote mark before and after a block
LinesBefore == {<<>>, <<"a", "\n">>}
LinesAfter == {<<>>, <<"\n", "a", "'">>}

\* prefix BQ, newline, the content lines each ended by a newline, BQ
Block(prefix, ls) ==
    prefix \o <<BQ, "\n">> \o Flatten([k \in 1..Len(ls) |-> ls[k] \o <<"\n">>]) \o <<BQ>>

Blocks ==
    {[before |-> b, prefix |-> pre, lines |-> ls, after |-> a] :
        b \in LinesBefore, pre \in Prefixes, ls \in LineSeqs, a \in LinesAfter}

\* the script that holds the block blk and no other quote mark
BlockScript(blk) == blk.before \o Block(blk.prefix, blk.lines) \o blk.after

BlockScripts == {BlockScript(blk) : blk \in Blocks}

Scripts == UNION {[1..n -> Alphabet] : n \in 0..MaxLen} \cup BlockScripts

GIdle == processed_data = <<>> /\ stage = "off"
PIdle == path1 = <<>> /\ path2 = <<>> /\ out1 = <<>> /\ out2 = <<>> /\ translated = FALSE

Multilines ==
    /\ stage = "read"
    /\ processed_data' = process_multilines(processed_data)
    /\ stage' = "multilines"
    /\ UNCHANGED <<in_file_data, pvars, fvars, lvars>>

LongLines ==
    /\ stage = "multilines"
    /\ processed_data' = process_long_lines(processed_data)
    /\ stage' = "long_lines"
    /\ UNCHANGED <<in_file_data, pvars, fvars, lvars>>

CodeBoth ==
    /\ stage = "long_lines"
    /\ processed_data' = process_code_both(processed_data)
    /\ stage' = "code_both"
    /\ UNCHANGED <<in_file_data, pvars, fvars, lvars>>

CodeStart ==
    /\ stage = "code_both"
    /\ processed_data' = process_code_start(processed_data)
    /\ stage' = "code_start"
    /\ UNCHANGED <<in_file_data, pvars, fvars, lvars>>

Escape ==
    /\ stage = "code_start"
    /\ processed_data' = escape(processed_data)
    /\ stage' = "escape"
    /\ UNCHANGED <<in_file_data, pvars, fvars, lvars>>

Final ==
    /\ stage = "escape"
    /\ processed_data' = intermediate_to_final(processed_data)
    /\ stage' = "final"
    /\ UNCHANGED <<in_file_data, pvars, fvars, lvars>>

----------------------------------------------------------------------------
(* Files *)

Procs == {"p1", "p2"}

NoFile == [exists |-> FALSE, data |-> <<>>, mode |-> {}]

\* the mode open(..., 'w') creates a file with
CreateMode == {"r", "w"}

\* str(float) and '{}'.format(float) of python 2: 12 significant digits, so that
\* modification times closer than the last digit print alike. A tick of src_mtime
\* is half of what the last digit tells apart.
StrFloat(mtime) == ToString(mtime \div 2)

\* header.tpl and header_root.tpl: the stamp line (the first line of a module, the
\* second of a root script, after the interpreter line) and the setup code
header_tpl(is_root) ==
    (IF is_root THEN <<"#!/usr/bin/env python", "\n">> ELSE <<>>)
    \o <<"#", "{SOURCE_MODIFICATION_DATE}", "\n", "<setup>", "\n">>

\* format_mtime with every digit of the time, as repr gives them
format_mtime_repr(mod_time) == <<"mtime:", ToString(mod_time)>>

\* 'mtime:{}'.format(mod_time)
format_mtime(mod_time) == <<"mtime:", StrFloat(mod_time)>>

get_header(mod_time, is_root) ==
    str_replace(header_tpl(is_root), <<"{SOURCE_MODIFICATION_DATE}">>,
                format_mtime(mod_time), 1)

\* f.readline() at position pos: up to and with the next newline
readline(data, pos) ==
    IF pos > Len(data) THEN <<>>
    ELSE SubSeq(data, pos, IF Eol(data, pos) <= Len(data) THEN Eol(data, pos) ELSE Len(data))

\* str.strip()
strip(s) ==
    LET a == FirstNotIn(s, 1, WS)
        K == {j \in 1..Len(s) : s[j] \notin WS}
    IN IF K = {} THEN <<>> ELSE SubSeq(s, a, CHOOSE j \in K : \A k \in K : k <= j)

\* mod_time_pattern.search(line), #mtime:(.*) : whether it matches, and group(1)
mod_time_pattern(line) ==
    LET S == {i \in 1..(Len(line) - 1) : line[i] = "#" /\ line[i+1] = "mtime:"}
    IN IF S = {} THEN [found |-> FALSE, group |-> <<>>]
       ELSE [found |-> TRUE,
             group |-> SubSeq(line, Min(S) + 2, Eol(line, Min(S) + 2) - 1)]

\* is_compilation_needed reading the second line also after a first line whose
\* stamp differs
is_compilation_needed_both_lines(in_mtime, out) ==
    IF ~out.exists THEN "True"
    ELSE LET first        == readline(out.data, 1)
             first_line_result == mod_time_pattern(strip(first))
             second_line_result ==
                 mod_time_pattern(strip(readline(out.data, Len(first) + 1)))
         IN IF \/ first_line_result.found
                  /\ <<StrFloat(in_mtime)>> = first_line_result.group
               \/ second_line_result.found
                  /\ <<StrFloat(in_mtime)>> = second_line_result.group
            THEN "False"
            ELSE IF first_line_result.found \/ second_line_result.found
                 THEN "True" ELSE "RuntimeError"

\* is_compilation_needed asking for compilation where line 83 raises
is_compilation_needed_no_raise(in_mtime, out) ==
    IF ~out.exists THEN "True"
    ELSE LET first        == readline(out.data, 1)
             first_line_result == mod_time_pattern(strip(first))
             second_line_result ==
                 mod_time_pattern(strip(readline(out.data, Len(first) + 1)))
         IN IF first_line_result.found
            THEN (IF <<StrFloat(in_mtime)>> = first_line_result.group
                  THEN "False" ELSE "True")
            ELSE IF /\ second_line_result.found
                    /\ <<StrFloat(in_mtime)>> = second_line_result.group
                 THEN "False" ELSE "True"

\* "True", "False", or "RuntimeError" when line 83 raises
is_compilation_needed(in_mtime, out) ==
    IF ~out.exists THEN "True"
    ELSE LET first        == readline(out.data, 1)
             first_line   == strip(first)
             first_line_result == mod_time_pattern(first_line)
             second_line  == strip(readline(out.data, Len(first) + 1))
             second_line_result == mod_time_pattern(second_line)
         IN IF first_line_result.found
            THEN (IF <<StrFloat(in_mtime)>> = first_line_result.group
                  THEN "False" ELSE "True")
            ELSE IF second_line_result.found
                 THEN (IF <<StrFloat(in_mtime)>> = second_line_result.group
                       THEN "False" ELSE "True")
                 ELSE "RuntimeError"

\* cache_decision consulting the cache for root scripts too
cache_decision_root_too(is_root, in_mtime, out) ==
    CASE is_compilation_needed(in_mtime, out) = "False" -> "return"
      [] is_compilation_needed(in_mtime, out) = "True" -> "compile"
      [] OTHER -> "raise"

\* line 120: not is_root_script and not is_compilation_needed(...)
\*   "return" the cached artifact, "raise", or go on and "compile"
cache_decision(is_root, in_mtime, out) ==
    IF is_root THEN "compile"
    ELSE CASE is_compilation_needed(in_mtime, out) = "False" -> "return"
           [] is_compilation_needed(in_mtime, out) = "True" -> "compile"
           [] OTHER -> "raise"

\* lines 134-142
transpile(script_data) ==
    intermediate_to_final(escape(process_code_start(process_code_both(
        process_long_lines(process_multilines(script_data))))))

\* a write of chunk at position off of a file holding data; a gap reads as NUL
write_at(data, off, chunk) ==
    LET n == IF Len(data) > off + Len(chunk) THEN Len(data) ELSE off + Len(chunk)
    IN [j \in 1..n |->
          IF j > off /\ j <= off + Len(chunk) THEN chunk[j - off]
          ELSE IF j <= Len(data) THEN data[j] ELSE "NUL"]

----------------------------------------------------------------------------
(* preprocess_file, a step for each access to the file system *)

\* preprocess_file(in_filepath, is_root): lines 117-118
Call(p, is_root) ==
    /\ pc[p] = "idle"
    /\ Len(log) < MaxRuns
    /\ pc' = [pc EXCEPT ![p] = "l120"]
    /\ is_root_script' = [is_root_script EXCEPT ![p] = is_root]
    /\ start_artifact' = [start_artifact EXCEPT ![p] = artifact]
    /\ result' = [result EXCEPT ![p] = "none"]
    /\ wrote' = [wrote EXCEPT ![p] = FALSE]
    /\ consulted' = [consulted EXCEPT ![p] = FALSE]
    /\ seen_data' = [seen_data EXCEPT ![p] = <<>>]
    /\ out_file_data' = [out_file_data EXCEPT ![p] = <<>>]
    /\ offset' = [offset EXCEPT ![p] = 0]
    /\ UNCHANGED <<in_file_data, gvars, pvars, fvars, log>>

\* lines 120-123
Check(p) ==
    /\ pc[p] = "l120"
    /\ LET d == cache_decision(is_root_script[p], src_mtime, artifact)
       IN /\ pc' = [pc EXCEPT ![p] = IF d = "compile" THEN "l125" ELSE "done"]
          /\ result' = [result EXCEPT ![p] =
                CASE d = "return" -> "cached"
                  [] d = "raise" -> "RuntimeError"
                  [] OTHER -> "none"]
    /\ consulted' = [consulted EXCEPT ![p] = ~is_root_script[p]]
    /\ seen_data' = [seen_data EXCEPT ![p] =
            IF is_root_script[p] THEN <<>> ELSE artifact.data]
    /\ UNCHANGED <<in_file_data, gvars, pvars, fvars, is_root_script, out_file_data,
                   offset, start_artifact, wrote, log>>

\* line 125: os.path.exists(os.path.dirname(out_filename))
TestDir(p) ==
    /\ pc[p] = "l125"
    /\ pc' = [pc EXCEPT ![p] = IF dir_exists THEN "l128" ELSE "l126"]
    /\ UNCHANGED <<in_file_data, gvars, pvars, fvars, is_root_script, out_file_data,
                   offset, result, start_artifact, seen_data, wrote, consulted, log>>

\* line 126: os.makedirs raises OSError (EEXIST) when the directory exists
MakeDirs(p) ==
    /\ pc[p] = "l126"
    /\ IF dir_exists
       THEN /\ pc' = [pc EXCEPT ![p] = "done"]
            /\ result' = [result EXCEPT ![p] = "OSError"]
            /\ UNCHANGED dir_exists
       ELSE /\ pc' = [pc EXCEPT ![p] = "l128"]
            /\ dir_exists' = TRUE
            /\ UNCHANGED result
    /\ UNCHANGED <<in_file_data, gvars, pvars, src_mtime, src_mode, artifact,
                   is_root_script, out_file_data, offset, start_artifact, seen_data,
                   wrote, consulted, log>>

\* lines 128-144
Transpile(p) ==
    /\ pc[p] = "l128"
    /\ out_file_data' = [out_file_data EXCEPT ![p] =
            get_header(src_mtime, is_root_script[p]) \o transpile(in_file_data)]
    /\ pc' = [pc EXCEPT ![p] = "l146"]
    /\ UNCHANGED <<in_file_data, gvars, pvars, fvars, is_root_script, offset, result,
                   start_artifact, seen_data, wrote, consulted, log>>

\* line 146: open(out_filename, 'w') creates the file or cuts it to nothing
OpenW(p) ==
    /\ pc[p] = "l146"
    /\ artifact' = [exists |-> TRUE, data |-> <<>>,
                    mode |-> IF artifact.exists THEN artifact.mode ELSE CreateMode]
    /\ offset' = [offset EXCEPT ![p] = 0]
    /\ wrote' = [wrote EXCEPT ![p] = TRUE]
    /\ pc' = [pc EXCEPT ![p] = "l147"]
    /\ UNCHANGED <<in_file_data, gvars, pvars, src_mtime, src_mode, dir_exists,
                   is_root_script, out_file_data, result, start_artifact, seen_data,
                   consulted, log>>

\* line 147: f.write and the close of the with block. The buffer of the file
\* object reaches the file in one piece or in several, at its own position.
Write(p) ==
    /\ pc[p] = "l147"
    /\ \E k \in 1..(Len(out_file_data[p]) - offset[p]) :
          /\ artifact' = [artifact EXCEPT !.data =
                write_at(artifact.data, offset[p],
                         SubSeq(out_file_data[p], offset[p] + 1, offset[p] + k))]
          /\ offset' = [offset EXCEPT ![p] = offset[p] + k]
          /\ pc' = [pc EXCEPT ![p] =
                IF offset[p] + k = Len(out_file_data[p]) THEN "l149" ELSE "l147"]
    /\ UNCHANGED <<in_file_data, gvars, pvars, src_mtime, src_mode, dir_exists,
                   is_root_script, out_file_data, result, start_artifact, seen_data,
                   wrote, consulted, log>>

\* lines 149-150
Chmod(p) ==
    /\ pc[p] = "l149"
    /\ artifact' = [artifact EXCEPT !.mode = src_mode]
    /\ pc' = [pc EXCEPT ![p] = IF is_root_script[p] THEN "l153" ELSE "done"]
    /\ result' = [result EXCEPT ![p] = IF is_root_script[p] THEN "none" ELSE "compiled"]
    /\ UNCHANGED <<in_file_data, gvars, pvars, src_mtime, src_mode, dir_exists,
                   is_root_script, out_file_data, offset, start_artifact, seen_data,
                   wrote, consulted, log>>

\* lines 152-153
ChmodExec(p) ==
    /\ pc[p] = "l153"
    /\ artifact' = [artifact EXCEPT !.mode = src_mode \cup {"x"}]
    /\ pc' = [pc EXCEPT ![p] = "done"]
    /\ result' = [result EXCEPT ![p] = "compiled"]
    /\ UNCHANGED <<in_file_data, gvars, pvars, src_mtime, src_mode, dir_exists,
                   is_root_script, out_file_data, offset, start_artifact, seen_data,
                   wrote, consulted, log>>

\* the call returns or raises to its caller, who may call again
Return(p) ==
    /\ pc[p] = "done"
    /\ pc' = [pc EXCEPT ![p] = "idle"]
    /\ log' = Append(log, [root    |-> is_root_script[p],
                           existed |-> start_artifact[p].exists,
                           result  |-> result[p],
                           wrote   |-> wrote[p]])
    /\ UNCHANGED <<in_file_data, gvars, pvars, fvars, is_root_script, out_file_data,
                   offset, result, start_artifact, seen_data, wrote, consulted>>

----------------------------------------------------------------------------
(* The source file and the artifact changed from outside, between calls *)

\* the scripts of the file specifications
SourceFiles == {<<BQ, "a", BQ>>, <<BQ, "'">>}

\* lines a file that preprocess_file did not write may begin with
ForeignLines ==
    {<<"x", "\n">>, <<" ", "x", "#", "mtime:", " ", "\n">>}
    \cup {<<"#", "mtime:", StrFloat(m), "\n">> : m \in 0..MaxMtime}

\* no line, one line or two, and then perhaps a stamp on the third line
ForeignData ==
    LET Short == UNION {{Flatten(ls) : ls \in [1..n -> ForeignLines]} : n \in 0..2}
    IN Short \cup {d \o <<"#", "mtime:", StrFloat(0), "\n">> : d \in Short}

Quiet == \A p \in Procs : pc[p] = "idle"

\* the source is saved again, with the same or another content
Touch ==
    /\ Quiet
    /\ src_mtime < MaxMtime
    /\ src_mtime' = src_mtime + 1
    /\ in_file_data' \in SourceFiles
    /\ log' = <<>>
    /\ UNCHANGED <<gvars, pvars, src_mode, dir_exists, artifact, pc, is_root_script,
                   out_file_data, offset, result, start_artifact, seen_data, wrote,
                   consulted>>

\* some other program writes the file at out_filename
ForeignWrite ==
    /\ Quiet
    /\ \E d \in ForeignData :
          artifact' = [exists |-> TRUE, data |-> d, mode |-> CreateMode]
    /\ dir_exists' = TRUE
    /\ log' = <<>>
    /\ UNCHANGED <<in_file_data, gvars, pvars, src_mtime, src_mode, pc, is_root_script,
                   out_file_data, offset, result, start_artifact, seen_data, wrote,
                   consulted>>

\* the temp directory is cleaned: the artifact goes, its directory may go too
Remove ==
    /\ Quiet
    /\ artifact.exists
    /\ artifact' = NoFile
    /\ dir_exists' \in BOOLEAN
    /\ log' = <<>>
    /\ UNCHANGED <<in_file_data, gvars, pvars, src_mtime, src_mode, pc, is_root_script,
                   out_file_data, offset, result, start_artifact, seen_data, wrote,
                   consulted>>

----------------------------------------------------------------------------
(* translate_to_temp_path *)

PathAlphabet == {"/", "a", "."}

\* os.getcwd(), tempfile.gettempdir(), getpass.getuser()
Cwd == <<"/", "a">>
TempDir == <<"/", "tmp">>
get_username == <<"user">>

\* str.split('/'): the pieces between the separators, empty ones too
RECURSIVE split(_)
split(path) ==
    LET j == FirstIn(path, 1, {"/"})
    IN IF j > Len(path) THEN <<path>>
       ELSE <<SubSeq(path, 1, j - 1)>> \o split(SubSeq(path, j + 1, Len(path)))

\* '/'.join(comps)
RECURSIVE slash_join(_)
slash_join(comps) ==
    IF comps = <<>> THEN <<>>
    ELSE IF Len(comps) = 1 THEN comps[1]
    ELSE comps[1] \o <<"/">> \o slash_join(Tail(comps))

\* the loop of posixpath.normpath over comps
RECURSIVE norm_comps(_, _, _)
norm_comps(comps, new_comps, initial_slashes) ==
    IF comps = <<>> THEN new_comps
    ELSE LET comp == Head(comps)
         IN IF comp \in {<<>>, <<".">>}
            THEN norm_comps(Tail(comps), new_comps, initial_slashes)
            ELSE IF \/ comp # <<".", ".">>
                    \/ (initial_slashes = 0 /\ new_comps = <<>>)
                    \/ (new_comps # <<>> /\ new_comps[Len(new_comps)] = <<".", ".">>)
                 THEN norm_comps(Tail(comps), Append(new_comps, comp), initial_slashes)
                 ELSE IF new_comps # <<>>
                      THEN norm_comps(Tail(comps),
                                      SubSeq(new_comps, 1, Len(new_comps) - 1),
                                      initial_slashes)
                      ELSE norm_comps(Tail(comps), new_comps, initial_slashes)

StartsWith(s, prefix) ==
    Len(s) >= Len(prefix) /\ SubSeq(s, 1, Len(prefix)) = prefix

\* normpath leaving the path as it is spelled
normpath_as_spelled(path) == IF path = <<>> THEN <<".">> ELSE path

\* posixpath.normpath
normpath(path) ==
    LET initial_slashes ==
            IF ~StartsWith(path, <<"/">>) THEN 0
            ELSE IF StartsWith(path, <<"/", "/">>) /\ ~StartsWith(path, <<"/", "/", "/">>)
                 THEN 2 ELSE 1
        joined == slash_join(norm_comps(split(path), <<>>, initial_slashes))
        whole  == [k \in 1..initial_slashes |-> "/"] \o joined
    IN IF path = <<>> \/ whole = <<>> THEN <<".">> ELSE whole

\* posixpath.join(a, b)
path_join(a, b) ==
    IF StartsWith(b, <<"/">>) THEN b
    ELSE IF a = <<>> \/ a[Len(a)] = "/" THEN a \o b
    ELSE a \o <<"/">> \o b

\* os.path.abspath
abspath(path) ==
    IF StartsWith(path, <<"/">>) THEN normpath(path) ELSE normpath(path_join(Cwd, path))

NonEmpty(x) == x # <<>>

\* os.path.relpath(path, start) for start = os.path.abspath(os.sep), whose list of
\* components is empty
relpath_from_root(path) ==
    LET path_list == SelectSeq(split(abspath(path)), NonEmpty)
    IN IF path_list = <<>> THEN <<".">> ELSE slash_join(path_list)

translate_to_temp_path(path) ==
    LET absolute_path == abspath(path)
        relative_path == relpath_from_root(absolute_path)
    IN path_join(path_join(path_join(TempDir, <<"shellpy">>), get_username),
                 relative_path)

\* the absolute paths translated
AbsPaths == {<<"/">> \o s : s \in UNION {[1..n -> PathAlphabet] : n \in 0..(MaxPathLen - 1)}}

Translate1 ==
    /\ out1 = <<>>
    /\ out1' = translate_to_temp_path(path1)
    /\ translated' = (out2 # <<>>)
    /\ UNCHANGED <<in_file_data, gvars, path1, path2, out2, fvars, lvars>>

Translate2 ==
    /\ out2 = <<>>
    /\ out2' = translate_to_temp_path(path2)
    /\ translated' = (out1 # <<>>)
    /\ UNCHANGED <<in_file_data, gvars, path1, path2, out1, fvars, lvars>>

----------------------------------------------------------------------------
(* Specifications *)

FIdle ==
    /\ src_mtime = 0 /\ src_mode = {"r"} /\ dir_exists = FALSE /\ artifact = NoFile

LIdle ==
    /\ pc = [p \in Procs |-> "idle"]
    /\ is_root_script = [p \in Procs |-> FALSE]
    /\ out_file_data = [p \in Procs |-> <<>>]
    /\ offset = [p \in Procs |-> 0]
    /\ result = [p \in Procs |-> "none"]
    /\ start_artifact = [p \in Procs |-> NoFile]
    /\ seen_data = [p \in Procs |-> <<>>]
    /\ wrote = [p \in Procs |-> FALSE]
    /\ consulted = [p \in Procs |-> FALSE]
    /\ log = <<>>

\* the passes of the grammar, on every script of the bounds
InitGrammar ==
    /\ in_file_data \in Scripts
    /\ processed_data = in_file_data
    /\ stage = "read"
    /\ PIdle /\ FIdle /\ LIdle

NextGrammar == Multilines \/ LongLines \/ CodeBoth \/ CodeStart \/ Escape \/ Final

SpecGrammar == InitGrammar /\ [][NextGrammar]_vars

\* translate_to_temp_path on every two absolute paths of the bounds
InitPath ==
    /\ path1 \in AbsPaths /\ path2 \in AbsPaths
    /\ out1 = <<>> /\ out2 = <<>> /\ translated = FALSE
    /\ in_file_data = <<>>
    /\ GIdle /\ FIdle /\ LIdle

NextPath == Translate1 \/ Translate2

SpecPath == InitPath /\ [][NextPath]_vars

\* one process calling preprocess_file again and again, the files changing from
\* outside between the calls
InitFile ==
    /\ in_file_data \in SourceFiles
    /\ src_mtime = 0
    /\ src_mode = {"r"}
    /\ dir_exists = FALSE
    /\ artifact = NoFile
    /\ GIdle /\ PIdle /\ LIdle

StepOf(p) ==
    \/ \E is_root \in BOOLEAN : Call(p, is_root)
    \/ Check(p) \/ TestDir(p) \/ MakeDirs(p) \/ Transpile(p)
    \/ OpenW(p) \/ Write(p) \/ Chmod(p) \/ ChmodExec(p)

NextFile == StepOf("p1") \/ Return("p1") \/ Touch \/ ForeignWrite \/ Remove

Spec == InitFile /\ [][NextFile]_vars

\* independent processes, each calling preprocess_file once for the same source
NextConcurrent == \E p \in Procs : StepOf(p)

SpecConcurrent == InitFile /\ [][NextConcurrent]_vars

----------------------------------------------------------------------------
(* What the claims speak of *)

Variants == {"multiline", "longline", "both", "start"}

\* a placeholder opens at i: <variant>_shexe(
OpenAt(s, i) ==
    /\ i + 3 <= Len(s)
    /\ s[i] \in Variants /\ s[i+1] = "_" /\ s[i+2] = "shexe" /\ s[i+3] = "("

\* a placeholder closes at i: )shexe
CloseAt(s, i) == i + 1 <= Len(s) /\ s[i] = ")" /\ s[i+1] = "shexe"

\* between two openings there is a closing: no placeholder lies in another
NoNesting(s) ==
    \A i, j \in 1..Len(s) :
        (i < j /\ OpenAt(s, i) /\ OpenAt(s, j)) => \E c \in (i + 4)..(j - 2) : CloseAt(s, c)

\* the raw texts of the placeholders of s
RawTexts(s) ==
    {SubSeq(s, i + 4, Min({c \in (i + 4)..Len(s) : CloseAt(s, c)}) - 1) :
        i \in {k \in 1..Len(s) : OpenAt(s, k) /\ \E c \in (k + 4)..Len(s) : CloseAt(s, c)}}

\* the text after the four passes that tag
Tagged(script_data) ==
    process_code_start(process_code_both(process_long_lines(
        process_multilines(script_data))))

\* s with every apostrophe inside a placeholder escaped once, all else as it is
RECURSIVE EscapedOnce(_, _, _)
EscapedOnce(s, i, inside) ==
    IF i > Len(s) THEN <<>>
    ELSE IF ~inside /\ OpenAt(s, i)
         THEN SubSeq(s, i, i + 3) \o EscapedOnce(s, i + 4, TRUE)
    ELSE IF inside /\ CloseAt(s, i)
         THEN SubSeq(s, i, i + 1) \o EscapedOnce(s, i + 2, FALSE)
    ELSE IF inside /\ s[i] = "'"
         THEN <<"\\", "'">> \o EscapedOnce(s, i + 1, inside)
    ELSE <<s[i]>> \o EscapedOnce(s, i + 1, inside)

\* every apostrophe of raw follows an odd number of backslashes: none of them ends
\* the literal the text is wrapped in
QuotesEscaped(raw) ==
    \A j \in 1..Len(raw) :
        raw[j] = "'" =>
            LET K == {k \in 1..(j - 1) : raw[k] # "\\"}
                last == IF K = {} THEN 0 ELSE CHOOSE k \in K : \A m \in K : m <= k
            IN (j - 1 - last) % 2 = 1

\* '; \' and a newline
Separator == <<";", " ", "\\", "\n">>

RECURSIVE JoinedWith(_, _)
JoinedWith(ls, sep) ==
    IF ls = <<>> THEN <<>>
    ELSE IF Len(ls) = 1 THEN ls[1]
    ELSE ls[1] \o sep \o JoinedWith(Tail(ls), sep)

EachFollowedBy(ls, sep) == Flatten([k \in 1..Len(ls) |-> ls[k] \o sep])

\* the n-th line of d, without its newline
RECURSIVE LineOf(_, _)
LineOf(d, n) ==
    IF n = 1 THEN SubSeq(d, 1, Eol(d, 1) - 1)
    ELSE IF Eol(d, 1) > Len(d) THEN <<>>
    ELSE LineOf(SubSeq(d, Eol(d, 1) + 1, Len(d)), n - 1)

\* the line carries a stamp marker
Marked(line) == \E i \in 1..(Len(line) - 1) : line[i] = "#" /\ line[i+1] = "mtime:"

\* the line carries a stamp, and its text, up to the end of the line less the blanks
\* there, is text
StampIs(line, text) ==
    /\ Marked(line)
    /\ LET sl == strip(line)
           i  == Min({k \in 1..(Len(sl) - 1) : sl[k] = "#" /\ sl[k+1] = "mtime:"})
       IN SubSeq(sl, i + 2, Len(sl)) = text

\* what is_compilation_needed gave the call p is in, which consulted it
Needed(p) ==
    CASE result[p] = "cached" -> "False"
      [] result[p] = "RuntimeError" -> "RuntimeError"
      [] OTHER -> "True"

FirstLine(p) == LineOf(start_artifact[p].data, 1)
SecondLine(p) == LineOf(start_artifact[p].data, 2)
CurrentStamp == <<StrFloat(src_mtime)>>

\* the artifact a finished compilation leaves
Compiled(is_root) == get_header(src_mtime, is_root) \o transpile(in_file_data)

\* the components an absolute path names: empty ones and "." dropped, ".." taking
\* the last one away, or nothing at the root
RECURSIVE Resolve(_, _)
Resolve(comps, stack) ==
    IF comps = <<>> THEN stack
    ELSE IF Head(comps) \in {<<>>, <<".">>} THEN Resolve(Tail(comps), stack)
    ELSE IF Head(comps) = <<".", ".">>
         THEN Resolve(Tail(comps),
                      IF stack = <<>> THEN stack ELSE SubSeq(stack, 1, Len(stack) - 1))
    ELSE Resolve(Tail(comps), Append(stack, Head(comps)))

Canonical(path) == Resolve(split(path), <<>>)

\* <temp root>/shellpy/<user>/<path relative to the root>
SandboxOf(comps) ==
    <<"/", "tmp", "/", "shellpy", "/", "user", "/">>
    \o (IF comps = <<>> THEN <<".">> ELSE slash_join(comps))

----------------------------------------------------------------------------
(* The claims *)

\* C1, as claimed: on an existing artifact is_compilation_needed gives False
\* whenever the first or the second line carries a stamp equal to str(mtime), and
\* True whenever one of the two lines is marked and no stamp equals.
C1_EitherLineHits ==
    \A p \in Procs :
        (pc[p] # "idle" /\ consulted[p] /\ start_artifact[p].exists) =>
            /\ (StampIs(FirstLine(p), CurrentStamp) \/ StampIs(SecondLine(p), CurrentStamp))
                  => Needed(p) = "False"
            /\ ( /\ Marked(FirstLine(p)) \/ Marked(SecondLine(p))
                 /\ ~StampIs(FirstLine(p), CurrentStamp)
                 /\ ~StampIs(SecondLine(p), CurrentStamp) )
                  => Needed(p) = "True"

\* C1, amended: the second line is consulted only when the first carries no marker.
\* False exactly when the first line carries a stamp equal to str(mtime), or carries
\* no marker and the second line carries an equal stamp; True exactly when the
\* first marked line of the two carries another stamp; no later line counts.
C1_FirstMarkedLineDecides ==
    \A p \in Procs :
        (pc[p] # "idle" /\ consulted[p] /\ start_artifact[p].exists) =>
            /\ Needed(p) = "False" <=>
                  \/ StampIs(FirstLine(p), CurrentStamp)
                  \/ ~Marked(FirstLine(p)) /\ StampIs(SecondLine(p), CurrentStamp)
            /\ Needed(p) = "True" <=>
                  \/ Marked(FirstLine(p)) /\ ~StampIs(FirstLine(p), CurrentStamp)
                  \/ /\ ~Marked(FirstLine(p)) /\ Marked(SecondLine(p))
                     /\ ~StampIs(SecondLine(p), CurrentStamp)

\* C1, witness: a stale stamp on the first line, the current one on the second,
\* and compilation found needed
C1_Witness ==
    \E p \in Procs :
        /\ pc[p] # "idle" /\ consulted[p] /\ start_artifact[p].exists
        /\ Marked(FirstLine(p)) /\ ~StampIs(FirstLine(p), CurrentStamp)
        /\ StampIs(SecondLine(p), CurrentStamp)
        /\ Needed(p) = "True"

\* C2: no process takes a cache hit on an artifact another process has written
\* only in part: the data a hit was taken on is a whole header and a whole body.
C2_NoHitOnPartialArtifact ==
    \A p \in Procs :
        result[p] = "cached" => \E r \in BOOLEAN : seen_data[p] = Compiled(r)

\* C3: "already exists" from the creation of the directory never ends a
\* compilation: no call of preprocess_file ends with the error of os.makedirs.
C3_MakedirsNeverAborts == \A p \in Procs : result[p] # "OSError"

\* C4: a call for a non-root source that finds an artifact whose first two lines
\* carry no stamp marker raises, never goes on to compile, opens nothing for
\* writing and leaves the artifact as it was.
C4_UnstampedArtifactRaises ==
    \A p \in Procs :
        ( /\ pc[p] # "idle" /\ ~is_root_script[p]
          /\ start_artifact[p].exists
          /\ ~Marked(FirstLine(p)) /\ ~Marked(SecondLine(p)) ) =>
            /\ pc[p] \in {"l120", "done"}
            /\ pc[p] = "done" => result[p] = "RuntimeError"
            /\ ~wrote[p]
            /\ artifact = start_artifact[p]

\* C4, witness: such a call has raised
C4_Witness ==
    \E p \in Procs :
        /\ pc[p] = "done" /\ ~is_root_script[p] /\ result[p] = "RuntimeError"
        /\ start_artifact[p].exists
        /\ ~Marked(FirstLine(p)) /\ ~Marked(SecondLine(p))

\* C5: a call for a non-root source that starts with no artifact compiles and
\* writes; the next call for a non-root source, nothing having changed between,
\* gets False from is_compilation_needed, returns the artifact and writes nothing.
C5_SecondRunIsCached ==
    /\ \A i \in 1..Len(log) :
          (~log[i].root /\ ~log[i].existed) =>
              log[i].result = "compiled" /\ log[i].wrote
    /\ \A i \in 1..(Len(log) - 1) :
          (~log[i].root /\ ~log[i].existed /\ ~log[i+1].root) =>
              log[i+1].result = "cached" /\ ~log[i+1].wrote

\* C5, witness: two such calls in a row
C5_Witness ==
    /\ Len(log) >= 2
    /\ ~log[1].root /\ ~log[1].existed /\ log[1].wrote
    /\ ~log[2].root /\ log[2].result = "cached"

\* C6: a call for a root script never consults is_compilation_needed, never raises
\* its error and never returns a cached artifact; when it ends it has compiled and
\* written the artifact, whatever was there before.
C6_RootAlwaysCompiles ==
    \A p \in Procs :
        (pc[p] # "idle" /\ is_root_script[p]) =>
            /\ ~consulted[p]
            /\ result[p] \notin {"cached", "RuntimeError"}
            /\ pc[p] = "done" =>
                  /\ result[p] = "compiled" /\ wrote[p]
                  /\ artifact.exists /\ artifact.data = Compiled(TRUE)
                  /\ artifact.mode = src_mode \cup {"x"}

\* C6, witness: a root script compiled over an artifact without a stamp
C6_Witness ==
    \E p \in Procs :
        /\ pc[p] = "done" /\ is_root_script[p] /\ result[p] = "compiled"
        /\ start_artifact[p].exists
        /\ ~Marked(FirstLine(p)) /\ ~Marked(SecondLine(p))

\* C7: after each of the four passes no placeholder begins inside the raw text of
\* another: the later passes never match again in what an earlier pass tagged.
C7_NoPlaceholderInsideAnother ==
    stage \in {"multilines", "long_lines", "code_both", "code_start"}
        => NoNesting(processed_data)

C9_QuotesEscapedOnce ==
    (stage = "escape" /\ NoNesting(Tagged(in_file_data))) =>
        /\ processed_data = EscapedOnce(Tagged(in_file_data), 1, FALSE)
        /\ \A raw \in RawTexts(processed_data) : QuotesEscaped(raw)

\* C10, as claimed: two distinct absolute paths have distinct sandbox paths.
C10_DistinctPathsDiffer ==
    (translated /\ path1 # path2) => out1 # out2

\* C10, amended: two absolute paths have the same sandbox path exactly when they
\* name the same components once empty and "." components are dropped and ".."
\* is resolved; the sandbox path is <temp root>/shellpy/<user>/ and then those
\* components, or "." for the root itself.
C10_InjectiveOnResolvedPaths ==
    translated =>
        /\ out1 = out2 <=> Canonical(path1) = Canonical(path2)
        /\ out1 = SandboxOf(Canonical(path1))
        /\ out2 = SandboxOf(Canonical(path2))

\* C10, witness: two spellings of one path, translated alike
C10_Witness ==
    /\ translated /\ path1 # path2 /\ out1 = out2
    /\ Canonical(path1) # <<>>

====
